---- MODULE Spec2Model ----
(***************************************************************************)
(* Model of the appointment slot-filling agent of src/extraction/agent.py: *)
(* the module-level appointment_context, the extraction adapter            *)
(* (call_ollama, extract_appointment_info_logic), the merge and            *)
(* missing-field logic (process_appointment_booking,                       *)
(* update_appointment_context, identify_missing_info_logic), the turn      *)
(* boundary (process_user_input) and the interactive loop (main).          *)
(*                                                                         *)
(* JSON values are tagged records.  A string is a sequence of tokens, so   *)
(* that ", ".join and string concatenation are computed, not assumed: the  *)
(* string "cough, fever" is <<"cough", ", ", "fever">> and differs from    *)
(* the list ["cough", "fever"].                                            *)
(***************************************************************************)
EXTENDS Integers, Sequences, FiniteSets, TLC

VARIABLES
    appointment_context, \* agent.py:36-43, the module-level context
    pc,                  \* position of main(): "outer", "processing", "symptoms", "extracting", "exited"
    result,              \* agent.py:299, the value process_user_input returned
    symptoms_input,      \* agent.py:315, the stripped line read in the symptoms loop
    printed,             \* agent.py:322/358, the final context main() printed
    call,                \* the handler call captured for inspection, NoCall if none
    turns                \* the executions of process_appointment_booking that run
                         \* concurrently on the context; NoTurns in main(), which runs one

vars == <<appointment_context, pc, result, symptoms_input, printed, call, turns>>

(***************************************************************************)
(* Bounds of the model.                                                    *)
(***************************************************************************)
\* largest number of key/value pairs in a JSON object the oracle returns
MaxKeys == 2

(***************************************************************************)
(* JSON values and Python truthiness.                                      *)
(***************************************************************************)
Null == [t |-> "null", v |-> <<>>]
Str(s) == [t |-> "str", v |-> s]
List(l) == [t |-> "list", v |-> l]
Obj(items) == [t |-> "obj", v |-> items]

\* bool(x) of Python for None, str, list and dict
Truthy(x) == x.t # "null" /\ Len(x.v) > 0

Range(s) == {s[i] : i \in 1..Len(s)}

\* sep.join(parts) over strings that are token sequences
RECURSIVE JoinTokens(_, _)
JoinTokens(parts, sep) ==
    IF Len(parts) = 0 THEN <<>>
    ELSE IF Len(parts) = 1 THEN parts[1]
    ELSE parts[1] \o sep \o JoinTokens(Tail(parts), sep)

CommaSpace == <<", ">>

(***************************************************************************)
(* The context (agent.py:36-43) and the fields the extraction prompt asks  *)
(* for (agent.py:62-70).                                                   *)
(***************************************************************************)
context_keys ==
    <<"doctor_specialty", "preferred_date", "preferred_time", "patient_name",
      "reason", "symptoms">>

ContextKeySet == Range(context_keys)

EmptyContext == [k \in ContextKeySet |-> Null]

prompt_fields ==
    <<"doctor_specialty", "preferred_date", "preferred_time", "patient_name",
      "patient_age", "patient_phone", "reason", "symptoms">>

\* the list of agent.py:101 with symptoms added to it
required_fields_WithSymptoms ==
    <<"doctor_specialty", "preferred_date", "preferred_time", "patient_name", "reason",
      "symptoms">>

\* agent.py:101
required_fields ==
    <<"doctor_specialty", "preferred_date", "preferred_time", "patient_name", "reason">>

(***************************************************************************)
(* The inputs: what the oracle may answer.  The oracle is opaque, so its   *)
(* answer is drawn independently of the user's text.                       *)
(***************************************************************************)
S(w) == Str(<<w>>)

\* the values the oracle may give for a key: null, empty and non-empty
\* strings, and for symptoms also lists of strings, [""] among them
ValuesFor(k) ==
    CASE k = "doctor_specialty" -> {Null, S("cardiologist")}
      [] k = "preferred_date"   -> {S("2026-01-05")}
      [] k = "preferred_time"   -> {S("12:00 PM")}
      [] k = "patient_name"     -> {S("Asha")}
      [] k = "patient_age"      -> {Null, S("30")}
      [] k = "patient_phone"    -> {S("98765")}
      [] k = "reason"           -> {Str(<<>>), S("checkup")}
      [] k = "symptoms"         -> {S("cough"), S("fever"),
                                    List(<< <<"cough">>, <<"fever">> >>), List(<<>>),
                                    List(<< <<>> >>)}

Items == UNION {{[k |-> k, v |-> v] : v \in ValuesFor(k)} : k \in Range(prompt_fields)}

Keys(items) == {items[i].k : i \in 1..Len(items)}

\* the key/value sequences of at most n pairs with distinct keys, in every order
\* (a Python dict keeps the order of the JSON text)
ItemSeqs(n) ==
    {items \in UNION {[1..len -> Items] : len \in 0..n} :
        \A i, j \in 1..Len(items) : i # j => items[i].k # items[j].k}

Objects == {Obj(items) : items \in ItemSeqs(MaxKeys)}

\* the place of a key in the prompt's list
FieldIndex(k) == CHOOSE i \in 1..Len(prompt_fields) : prompt_fields[i] = k

\* the objects whose keys come in the prompt's order: one object for each set of
\* pairs, for a reader that looks keys up and does not iterate over the object
ObjectsInPromptOrder ==
    {o \in Objects :
        \A i, j \in 1..Len(o.v) : i < j => FieldIndex(o.v[i].k) < FieldIndex(o.v[j].k)}

\* JSON documents that are valid but no object
NonObjects == {Null, S("cough"), List(<< <<"cough">> >>)}

Documents == Objects \cup NonObjects

\* the text of an answer is a sequence of chunks
Ws == [c |-> "ws", d |-> Null]          \* whitespace
Fence == [c |-> "fence", d |-> Null]    \* ```
JsonWord == [c |-> "json", d |-> Null]  \* the word json
Prose == [c |-> "prose", d |-> Null]    \* any other words
Doc(d) == [c |-> "doc", d |-> d]        \* the text of the JSON document d

\* the documents that are also tried inside markdown fences
FencedDocuments == {d \in Documents : d.t # "obj" \/ Len(d.v) <= 1}

Texts ==
    {<<Doc(d)>> : d \in Documents}
    \cup {<<Ws, Fence, JsonWord, Ws, Doc(d), Ws, Fence, Ws>> : d \in FencedDocuments}
    \cup {<<Fence, Doc(d), Fence>> : d \in FencedDocuments}
    \cup {<<Prose, Doc(d)>> : d \in FencedDocuments}
    \cup {<<>>, <<Ws>>, <<Prose>>, <<Fence>>, <<Fence, JsonWord, Fence>>}

\* what ollama.generate does: it answers with a text, or raises
Replies == {[ok |-> TRUE, text |-> t] : t \in Texts} \cup {[ok |-> FALSE, text |-> <<>>]}

(***************************************************************************)
(* The extraction adapter.                                                 *)
(***************************************************************************)
\* agent.py:18-33: the answer's text, or "" when the call raises
call_ollama(reply) == IF reply.ok THEN reply.text ELSE <<>>

\* str.strip() on a chunk sequence
RECURSIVE LStrip(_)
LStrip(s) == IF Len(s) > 0 /\ s[1].c = "ws" THEN LStrip(Tail(s)) ELSE s

RECURSIVE RStrip(_)
RStrip(s) ==
    IF Len(s) > 0 /\ s[Len(s)].c = "ws" THEN RStrip(SubSeq(s, 1, Len(s) - 1)) ELSE s

Strip(s) == RStrip(LStrip(s))

\* agent.py:80-81
StripJsonFence(s) ==
    IF Len(s) >= 2 /\ s[1].c = "fence" /\ s[2].c = "json" THEN SubSeq(s, 3, Len(s)) ELSE s

\* agent.py:82-83
StripOpenFence(s) ==
    IF Len(s) >= 1 /\ s[1].c = "fence" THEN Tail(s) ELSE s

\* agent.py:84-85
StripCloseFence(s) ==
    IF Len(s) >= 1 /\ s[Len(s)].c = "fence" THEN SubSeq(s, 1, Len(s) - 1) ELSE s

\* json.loads: the text must be exactly one JSON document
json_loads(s) ==
    IF Len(s) = 1 /\ s[1].c = "doc"
    THEN [ok |-> TRUE, value |-> s[1].d]
    ELSE [ok |-> FALSE, value |-> Null]

EmptyObject == Obj(<<>>)

\* what kind of answer the oracle gave: "failed" when the call raised, "no_json"
\* when the text holds words besides the document or no document at all, and
\* "json" when it is a document, bare or in markdown fences
ReplyKind(reply) ==
    IF ~reply.ok THEN "failed"
    ELSE IF \/ \E i \in 1..Len(reply.text) : reply.text[i].c = "prose"
            \/ \A i \in 1..Len(reply.text) : reply.text[i].c # "doc"
         THEN "no_json"
    ELSE "json"

\* agent.py:76-93 with `return None` in place of `return {}` at 92-93
extract_appointment_info_logic_None(reply) ==
    LET response_text == Strip(StripCloseFence(StripOpenFence(StripJsonFence(
                             Strip(call_ollama(reply))))))
        parsed == json_loads(response_text)
    IN  IF parsed.ok THEN parsed.value ELSE Null

\* agent.py:76-93
extract_appointment_info_logic(reply) ==
    LET response_text == Strip(StripCloseFence(StripOpenFence(StripJsonFence(
                             Strip(call_ollama(reply))))))
        parsed == json_loads(response_text)
    IN  IF parsed.ok THEN parsed.value ELSE EmptyObject

(***************************************************************************)
(* Merge and missing-field logic.                                          *)
(***************************************************************************)
NoException == [type |-> "none", message |-> ""]

\* reading appointment_context[key] for a key the context does not have;
\* str(KeyError(key)) is the quoted key
KeyError(key) == [type |-> "KeyError", message |-> "'" \o key \o "'"]

\* calling .items() or .get() on a value that is no dict
AttributeError(value) ==
    [type |-> "AttributeError",
     message |-> CASE value.t = "null" -> "'NoneType' object has no attribute"
                   [] value.t = "str"  -> "'str' object has no attribute"
                   [] value.t = "list" -> "'list' object has no attribute"]

\* dict.get(key): None when the key is absent
RECURSIVE ItemsGet(_, _)
ItemsGet(items, key) ==
    IF Len(items) = 0 THEN Null
    ELSE IF items[1].k = key THEN items[1].v
    ELSE ItemsGet(Tail(items), key)

\* the test of agent.py:218 without `not appointment_context[key]`
FieldIsEmpty_Always(context, key) == TRUE

\* agent.py:218, for a key the context has
FieldIsEmpty(context, key) == ~Truthy(context[key])

\* agent.py:217-219: the loop over extracted.items(), in the dict's order.
\* `value and not appointment_context[key]` reads the context only for a truthy
\* value, and raises KeyError for a key the context does not have; the writes
\* made before the exception stay.
RECURSIVE MergeItems(_, _)
MergeItems(context, items) ==
    IF Len(items) = 0 THEN [context |-> context, raised |-> NoException]
    ELSE LET key == items[1].k
             value == items[1].v
         IN  IF ~Truthy(value) THEN MergeItems(context, Tail(items))
             ELSE IF key \notin DOMAIN context
                  THEN [context |-> context, raised |-> KeyError(key)]
             ELSE IF FieldIsEmpty(context, key)
                  THEN MergeItems([context EXCEPT ![key] = value], Tail(items))
             ELSE MergeItems(context, Tail(items))

\* agent.py:221-223 left out
SymptomsAsReason_Never(context) == context

\* agent.py:221-223 without the condition of 222
SymptomsAsReason_Always(context) == [context EXCEPT !["reason"] = context["symptoms"]]

\* agent.py:221-223
SymptomsAsReason(context) ==
    IF Truthy(context["symptoms"]) /\ ~Truthy(context["reason"])
    THEN [context EXCEPT !["reason"] = context["symptoms"]]
    ELSE context

\* context.get(field)
ContextGet(context, field) == IF field \in DOMAIN context THEN context[field] ELSE Null

\* the test of agent.py:102 as `context.get(field) is None`
IsMissing_NoneOnly(context, field) == ContextGet(context, field) = Null

\* agent.py:102, the test of the list comprehension
IsMissing(context, field) == ~Truthy(ContextGet(context, field))

\* agent.py:95-103
RECURSIVE MissingAmong(_, _)
MissingAmong(fields, context) ==
    IF Len(fields) = 0 THEN <<>>
    ELSE (IF IsMissing(context, fields[1]) THEN <<fields[1]>> ELSE <<>>)
         \o MissingAmong(Tail(fields), context)

identify_missing_info_logic(context) == MissingAmong(required_fields, context)

\* agent.py:105-122: no question for an empty list, else whatever text the
\* oracle call gives ("" when it fails); the text itself is not modelled
generate_clarification_questions_logic(missing_fields) ==
    IF Len(missing_fields) = 0 THEN "All information collected!"
    ELSE "text of call_ollama"

\* agent.py:229
CollectedInfo(context) ==
    [k \in {f \in DOMAIN context : Truthy(context[f])} |-> context[k]]

NoResult == [status |-> "none"]

\* agent.py:231-258 with collected_info in place of appointment_context.copy()
TurnResult_NoSnapshot(context) ==
    LET missing_required == identify_missing_info_logic(context)
    IN  IF Len(missing_required) > 0
        THEN [status |-> "collecting_info",
              extracted_info |-> CollectedInfo(context),
              collected_info |-> CollectedInfo(context),
              missing_fields |-> missing_required,
              questions |-> generate_clarification_questions_logic(missing_required),
              message |-> "Still need"]
        ELSE [status |-> "ask_symptoms",
              extracted_info |-> CollectedInfo(context),
              collected_info |-> CollectedInfo(context),
              message |-> "Great! I have all the required information."]

\* agent.py:231-258
TurnResult(context) ==
    LET missing_required == identify_missing_info_logic(context)
    IN  IF Len(missing_required) > 0
        THEN [status |-> "collecting_info",
              extracted_info |-> context,
              collected_info |-> CollectedInfo(context),
              missing_fields |-> missing_required,
              questions |-> generate_clarification_questions_logic(missing_required),
              message |-> "Still need"]
        ELSE [status |-> "ask_symptoms",
              extracted_info |-> context,
              collected_info |-> CollectedInfo(context),
              message |-> "Great! I have all the required information."]

\* agent.py:209-258.  extracted is the adapter's value, merged the context after
\* the loop of 217-219, context the context the call leaves behind, raised the
\* exception that ended the call (NoException when it returned result).
process_appointment_booking(context, reply) ==
    LET extracted == extract_appointment_info_logic(reply)
    IN  IF extracted.t # "obj"
        THEN [extracted |-> extracted, merged |-> context, context |-> context,
              raised |-> AttributeError(extracted), result |-> NoResult]
        ELSE LET m == MergeItems(context, extracted.v)
             IN  IF m.raised # NoException
                 THEN [extracted |-> extracted, merged |-> m.context,
                       context |-> m.context, raised |-> m.raised, result |-> NoResult]
                 ELSE LET final == SymptomsAsReason(m.context)
                      IN  [extracted |-> extracted, merged |-> m.context,
                           context |-> final, raised |-> NoException,
                           result |-> TurnResult(final)]

\* agent.py:260-271
process_user_input(context, reply) ==
    LET done == process_appointment_booking(context, reply)
    IN  IF done.raised = NoException THEN done
        ELSE [done EXCEPT !.result = [status |-> "error", response |-> done.raised.message]]

\* agent.py:196-207
update_appointment_context(context, extracted_info) ==
    IF ~Truthy(extracted_info) THEN context
    ELSE [key \in DOMAIN context |->
             IF Truthy(ItemsGet(extracted_info.v, key)) /\ FieldIsEmpty(context, key)
             THEN ItemsGet(extracted_info.v, key)
             ELSE context[key]]

\* agent.py:275 over the required fields only
is_all_fields_filled_Required(context) ==
    \A i \in 1..Len(required_fields) : context[required_fields[i]].t # "null"

\* agent.py:275 as all(appointment_context.values())
is_all_fields_filled_Truthy(context) == \A key \in DOMAIN context : Truthy(context[key])

\* agent.py:273-275
is_all_fields_filled(context) == \A key \in DOMAIN context : context[key].t # "null"

(***************************************************************************)
(* The interactive loop, main() (agent.py:278-377).                        *)
(***************************************************************************)
\* a line the user types is a sequence of characters
UserInputs ==
    {<<>>, <<" ">>,
     <<"e", "x", "i", "t">>, <<" ", "E", "x", "i", "t", " ">>,
     <<"d", "o", "n", "e">>, <<"D", "O", "N", "E">>, <<" ", "D", "o", "n", "e">>,
     <<"n", "o">>, <<"N", "o">>, <<"N", "O", " ">>,
     <<"n", "o", "n", "e">>, <<"f", "e", "v", "e", "r">>}

\* str.strip() on a line
RECURSIVE StripLine(_)
StripLine(line) ==
    IF Len(line) > 0 /\ line[1] = " " THEN StripLine(Tail(line))
    ELSE IF Len(line) > 0 /\ line[Len(line)] = " "
         THEN StripLine(SubSeq(line, 1, Len(line) - 1))
    ELSE line

LowerChar(ch) ==
    CASE ch = "D" -> "d" [] ch = "E" -> "e" [] ch = "I" -> "i" [] ch = "N" -> "n"
      [] ch = "O" -> "o" [] ch = "T" -> "t" [] ch = "X" -> "x" [] OTHER -> ch

\* str.lower()
Lower(line) == [i \in 1..Len(line) |-> LowerChar(line[i])]

\* agent.py:317 without .lower()
IsCompletionToken_CaseSensitive(line) ==
    line = <<"d", "o", "n", "e">> \/ line = <<"n", "o">>

\* agent.py:317
IsCompletionToken(line) ==
    Lower(line) = <<"d", "o", "n", "e">> \/ Lower(line) = <<"n", "o">>

\* agent.py:326-327 and 362-363
ResetContext(context) == [key \in DOMAIN context |-> Null]

NothingPrinted == [banner |-> "none", context |-> EmptyContext]

\* agent.py:341-342 and 347-348
AsText(value) == IF value.t = "list" THEN Str(JoinTokens(value.v, CommaSpace)) ELSE value

\* agent.py:338-351 with the assignment of 351 in both branches
AppendSymptoms_Overwrite(context, extracted_symptoms) ==
    LET given == ItemsGet(extracted_symptoms.v, "symptoms")
    IN  IF ~Truthy(given) THEN context
        ELSE [context EXCEPT !["symptoms"] = AsText(given)]

\* agent.py:338-351
AppendSymptoms(context, extracted_symptoms) ==
    LET given == ItemsGet(extracted_symptoms.v, "symptoms")
    IN  IF ~Truthy(given) THEN context
        ELSE LET symptom_text == AsText(given)
             IN  IF Truthy(context["symptoms"])
                 THEN [context EXCEPT !["symptoms"] =
                          Str(AsText(context["symptoms"]).v \o CommaSpace \o symptom_text.v)]
                 ELSE [context EXCEPT !["symptoms"] = symptom_text]

NoCall == [op |-> "none"]

\* main() is one thread: no execution of a turn runs beside it
NoTurns == [run |-> <<>>, overlapped |-> FALSE, overwritten |-> {}]

\* a captured call ends the run: it is the snapshot of one call with its inputs
Running == call = NoCall

Init ==
    /\ appointment_context = EmptyContext
    /\ pc = "outer"
    /\ result = NoResult
    /\ symptoms_input = <<>>
    /\ printed = NothingPrinted
    /\ call = NoCall
    /\ turns = NoTurns

\* agent.py:287-297: read a line in the outer loop and dispatch on it.  The
\* result of the turn before is dead from here on (299 overwrites it).
ReadInput ==
    /\ Running
    /\ pc = "outer"
    /\ \E line \in UserInputs :
       LET user_input == StripLine(line)
       IN  IF Lower(user_input) = <<"e", "x", "i", "t">>
           THEN /\ pc' = "exited"
                /\ UNCHANGED result
           ELSE IF Len(user_input) = 0
                THEN UNCHANGED <<pc, result>>
           ELSE /\ pc' = "processing"
                /\ result' = NoResult
    /\ UNCHANGED <<appointment_context, symptoms_input, printed, call, turns>>

\* agent.py:298-311 and 372-377: the turn, and where main() goes after it
Turn ==
    /\ Running
    /\ pc = "processing"
    /\ \E reply \in Replies :
       LET done == process_user_input(appointment_context, reply)
       IN  /\ appointment_context' = done.context
           /\ result' = done.result
           /\ pc' = IF done.result.status = "ask_symptoms" THEN "symptoms" ELSE "outer"
           /\ \E capture \in BOOLEAN :
                 call' = IF capture
                         THEN [op |-> "process_user_input", pre |-> appointment_context,
                               oracle |-> ReplyKind(reply),
                               extracted |-> done.extracted,
                               merged |-> done.merged, raised |-> done.raised]
                         ELSE NoCall
    /\ UNCHANGED <<symptoms_input, printed, turns>>

\* agent.py:315-334: read a line in the symptoms loop; on a completion token
\* print the context, reset it and return from main()
ReadSymptoms ==
    /\ Running
    /\ pc = "symptoms"
    /\ \E line \in UserInputs :
          /\ symptoms_input' = StripLine(line)
          /\ IF IsCompletionToken(symptoms_input')
             THEN /\ printed' = [banner |-> "APPOINTMENT DETAILS FINALIZED!",
                                 context |-> appointment_context]
                  /\ appointment_context' = ResetContext(appointment_context)
                  /\ pc' = "exited"
                  /\ call' = [op |-> "completion_token", pre |-> appointment_context]
             ELSE /\ pc' = "extracting"
                  /\ UNCHANGED <<appointment_context, printed, call>>
    /\ UNCHANGED <<result, turns>>

\* agent.py:335-370, and 376-377 when the extraction is no dict
ExtraSymptoms ==
    /\ Running
    /\ pc = "extracting"
    /\ \E reply \in Replies :
       LET extracted_symptoms == extract_appointment_info_logic(reply)
           raised == IF extracted_symptoms.t = "obj" THEN NoException
                     ELSE AttributeError(extracted_symptoms)
           appended == IF raised = NoException
                       THEN AppendSymptoms(appointment_context, extracted_symptoms)
                       ELSE appointment_context
       IN  /\ IF raised # NoException
              THEN /\ pc' = "outer"
                   /\ UNCHANGED <<appointment_context, printed>>
              ELSE IF is_all_fields_filled(appended)
                   THEN /\ printed' = [banner |-> "ALL APPOINTMENT DETAILS FILLED!",
                                       context |-> appended]
                        /\ appointment_context' = ResetContext(appended)
                        /\ pc' = "exited"
              ELSE /\ appointment_context' = appended
                   /\ pc' = "symptoms"
                   /\ UNCHANGED printed
           /\ \E capture \in BOOLEAN :
                 call' = IF capture
                         THEN [op |-> "extra_symptoms", pre |-> appointment_context,
                               oracle |-> ReplyKind(reply),
                               extracted |-> extracted_symptoms,
                               merged |-> appended, raised |-> raised]
                         ELSE NoCall
    /\ UNCHANGED <<result, symptoms_input, turns>>

\* agent.py:196-207.  No code of the repository calls update_appointment_context:
\* it is applied, in place of the turn, to every context main() reaches, and the
\* call is captured.  It reads extracted_info with .get(key) for the keys of the
\* context, so the order of the pairs in extracted_info makes no difference.
UpdateAppointmentContext ==
    /\ Running
    /\ pc = "processing"
    /\ \E extracted_info \in ObjectsInPromptOrder :
          /\ appointment_context' =
                 update_appointment_context(appointment_context, extracted_info)
          /\ call' = [op |-> "update_appointment_context", pre |-> appointment_context,
                      extracted |-> extracted_info]
    /\ UNCHANGED <<pc, result, symptoms_input, printed, turns>>

Next ==
    \/ ReadInput
    \/ Turn
    \/ ReadSymptoms
    \/ ExtraSymptoms
    \/ UpdateAppointmentContext

Spec == Init /\ [][Next]_vars

(***************************************************************************)
(* identify_missing_info_logic as a function of any context: the tool      *)
(* identify_missing_info (agent.py:163-171) hands it whatever dict the     *)
(* caller's JSON holds, with keys absent and values of any kind.           *)
(***************************************************************************)
ProbeValues == {Null, Str(<<>>), S("Asha"), List(<<>>), List(<< <<"cough">> >>)}

ProbeKeySets == {keys \in SUBSET ContextKeySet : Cardinality(keys) >= 4}

ProbeContexts == UNION {[keys -> ProbeValues] : keys \in ProbeKeySets}

InitMissing ==
    /\ appointment_context = EmptyContext
    /\ pc = "identify"
    /\ result = NoResult
    /\ symptoms_input = <<>>
    /\ printed = NothingPrinted
    /\ call \in {[op |-> "identify_missing_info", context |-> c] : c \in ProbeContexts}
    /\ turns = NoTurns

\* agent.py:163-171, for a context string that parses to the dict call.context
IdentifyMissingInfo ==
    /\ pc = "identify"
    /\ result' = [status |-> "identified",
                  missing_fields |-> identify_missing_info_logic(call.context)]
    /\ pc' = "exited"
    /\ UNCHANGED <<appointment_context, symptoms_input, printed, call, turns>>

SpecMissing == InitMissing /\ [][IdentifyMissingInfo]_vars

(***************************************************************************)
(* The claims.  Each states what is expected in its own terms: the fields  *)
(* and the notion of an empty value are written out here and not taken     *)
(* from the definitions above.                                             *)
(***************************************************************************)
TurnCaptured == call.op = "process_user_input"
TurnCompleted == TurnCaptured /\ call.raised = NoException
UpdateCaptured == call.op = "update_appointment_context"
ExtraCaptured == call.op = "extra_symptoms"

DeclaredRequired ==
    <<"doctor_specialty", "preferred_date", "preferred_time", "patient_name", "reason">>

\* None, "" and [] are the empty values, and so is a key the dict does not have
IsEmptyValue(value) == value \in {Null, Str(<<>>), List(<<>>)}
EmptyIn(context, field) == field \notin DOMAIN context \/ IsEmptyValue(context[field])

\* the required fields that are empty in context, in the declared order
ExpectedMissing(context) == SelectSeq(DeclaredRequired, LAMBDA f : EmptyIn(context, f))

\* C1: first-write-wins: the merge step of a turn, and update_appointment_context,
\* never change a context field that was non-empty before, whatever is extracted
C1_FirstWriteWins ==
    /\ TurnCaptured =>
          \A key \in DOMAIN call.pre :
              ~IsEmptyValue(call.pre[key]) =>
                  /\ call.merged[key] = call.pre[key]
                  /\ appointment_context[key] = call.pre[key]
    /\ UpdateCaptured =>
          \A key \in DOMAIN call.pre :
              ~IsEmptyValue(call.pre[key]) => appointment_context[key] = call.pre[key]

\* a turn whose extraction offers "fever" for symptoms to a context that holds "cough"
C1_Witness ==
    /\ TurnCompleted
    /\ call.pre["symptoms"] = S("cough")
    /\ call.extracted.t = "obj"
    /\ \E i \in 1..Len(call.extracted.v) :
          call.extracted.v[i] = [k |-> "symptoms", v |-> S("fever")]
    /\ appointment_context["symptoms"] = S("cough")

\* C2: identify_missing_info_logic returns exactly the required fields whose value
\* is empty, in the declared order; the list is empty iff all five are non-empty,
\* and it never holds a field that is not required
C2_MissingRequired ==
    (call.op = "identify_missing_info" /\ pc = "exited") =>
        LET missing == result.missing_fields
        IN  /\ missing = ExpectedMissing(call.context)
            /\ (missing = <<>>) <=>
                   (\A i \in 1..Len(DeclaredRequired) :
                        ~EmptyIn(call.context, DeclaredRequired[i]))
            /\ \A i \in 1..Len(missing) : missing[i] # "symptoms"

\* a context with an empty string, an empty list and an absent required key, and
\* with symptoms empty: three fields are reported, symptoms is not
C2_Witness ==
    /\ call.op = "identify_missing_info"
    /\ pc = "exited"
    /\ DOMAIN call.context = ContextKeySet \ {"preferred_time"}
    /\ call.context["doctor_specialty"] = Str(<<>>)
    /\ call.context["reason"] = List(<<>>)
    /\ call.context["symptoms"] = Null
    /\ result.missing_fields = <<"doctor_specialty", "preferred_time", "reason">>

\* C3: a turn that completes returns collecting_info iff a required field is empty
\* in the context it leaves, and ask_symptoms otherwise; with collecting_info the
\* missing_fields are the required fields that are empty, in the declared order
C3_StatusFollowsMissing ==
    TurnCompleted =>
        /\ result.status \in {"collecting_info", "ask_symptoms"}
        /\ (result.status = "collecting_info") <=>
               (\E i \in 1..Len(DeclaredRequired) :
                    EmptyIn(appointment_context, DeclaredRequired[i]))
        /\ result.status = "collecting_info" =>
               result.missing_fields = ExpectedMissing(appointment_context)

\* the empty context and an extraction of only a name and a date
C3_Witness ==
    /\ TurnCompleted
    /\ call.pre = EmptyContext
    /\ call.extracted = Obj(<<[k |-> "patient_name", v |-> S("Asha")],
                             [k |-> "preferred_date", v |-> S("2026-01-05")]>>)
    /\ result.status = "collecting_info"
    /\ result.missing_fields = <<"doctor_specialty", "preferred_time", "reason">>

\* the pairs of an extracted JSON object, none for a value that is no object
PairsOf(extracted) == IF extracted.t = "obj" THEN Range(extracted.v) ELSE {}

\* C4: a turn that raises gives status error with the exception's message, and
\* leaves the context equal, field by field, to the context before the turn
C4_ErrorLeavesContext ==
    (TurnCaptured /\ call.raised # NoException) =>
        /\ result.status = "error"
        /\ result.response = call.raised.message
        /\ appointment_context = call.pre

\* C5: for every field of the schema, a non-empty extracted value for a field
\* that is empty in the context before the merge is held by the context after
\* the turn
C5_ExtractedValueLands ==
    TurnCaptured =>
        \A pair \in PairsOf(call.extracted) :
            (~IsEmptyValue(pair.v) /\ EmptyIn(call.pre, pair.k)) =>
                /\ pair.k \in DOMAIN appointment_context
                /\ appointment_context[pair.k] = pair.v

\* C6: in a turn that completes, if after the merge symptoms is non-empty and
\* reason is empty then at the end of the turn reason equals symptoms; a reason
\* that is non-empty after the merge is not changed
C6_SymptomsAsReason ==
    TurnCompleted =>
        /\ (~IsEmptyValue(call.merged["symptoms"]) /\ IsEmptyValue(call.merged["reason"])) =>
               /\ appointment_context["reason"] = appointment_context["symptoms"]
               /\ appointment_context["symptoms"] = call.merged["symptoms"]
        /\ ~IsEmptyValue(call.merged["reason"]) =>
               appointment_context["reason"] = call.merged["reason"]

\* the extraction gives symptoms and no reason to a context without a reason
C6_Witness ==
    /\ TurnCompleted
    /\ call.pre["reason"] = Null
    /\ call.merged["reason"] = Null
    /\ call.merged["symptoms"] = S("cough")
    /\ appointment_context["reason"] = S("cough")

\* C7: a turn, or an update_appointment_context, whose extraction result is the
\* empty mapping leaves every field of the context unchanged
C7_EmptyMergeIdempotent ==
    ((TurnCaptured \/ UpdateCaptured) /\ call.extracted = Obj(<<>>)) =>
        \A key \in DOMAIN call.pre : appointment_context[key] = call.pre[key]

\* C8: when the oracle call fails or its text is no parsable JSON, the extraction
\* is the empty mapping, the turn raises nothing and does not report an error,
\* and the context after the merge of that turn is the context before it
C8_OracleDegradation ==
    (TurnCaptured /\ call.oracle \in {"failed", "no_json"}) =>
        /\ call.extracted = Obj(<<>>)
        /\ call.raised = NoException
        /\ result.status \in {"collecting_info", "ask_symptoms"}
        /\ \A key \in DOMAIN call.pre : call.merged[key] = call.pre[key]

\* the oracle call fails in a turn on a context that holds a name
C8_Witness ==
    /\ TurnCaptured
    /\ call.oracle = "failed"
    /\ call.pre["patient_name"] = S("Asha")
    /\ call.merged["patient_name"] = S("Asha")
    /\ result.status = "collecting_info"

\* "done" and "no" in every letter case
CompletionSpellings ==
    {<<a, b, c, d>> : a \in {"d", "D"}, b \in {"o", "O"}, c \in {"n", "N"}, d \in {"e", "E"}}
    \cup {<<a, b>> : a \in {"n", "N"}, b \in {"o", "O"}}

\* C9: in the symptoms loop a line equal to "done" or "no" in any letter case
\* finalizes: what is printed is the context as it was before the line, every
\* field of the context is None right after, and no extraction runs on the line
C9_FinalizeOnToken ==
    /\ symptoms_input \in CompletionSpellings => call.op = "completion_token"
    /\ pc = "extracting" => symptoms_input \notin CompletionSpellings
    /\ call.op = "completion_token" =>
          /\ printed.banner = "APPOINTMENT DETAILS FINALIZED!"
          /\ printed.context = call.pre
          /\ \A key \in DOMAIN appointment_context : appointment_context[key] = Null
          /\ pc = "exited"

\* "DONE" typed when the context holds the five required fields
C9_Witness ==
    /\ call.op = "completion_token"
    /\ symptoms_input = <<"D", "O", "N", "E">>
    /\ call.pre["patient_name"] = S("Asha")
    /\ call.pre["reason"] = S("checkup")
    /\ printed.context["reason"] = S("checkup")
    /\ appointment_context = EmptyContext

\* ", ".join(l) written from the right end
RECURSIVE CommaJoined(_)
CommaJoined(l) ==
    IF Len(l) = 0 THEN <<>>
    ELSE IF Len(l) = 1 THEN l[1]
    ELSE CommaJoined(SubSeq(l, 1, Len(l) - 1)) \o <<", ">> \o l[Len(l)]

\* the tokens of a symptoms value as text, a list being joined first
SymptomTokens(value) == IF value.t = "list" THEN CommaJoined(value.v) ELSE value.v

\* the symptoms an extraction supplies, Null if it supplies none
SuppliedSymptoms(extracted) ==
    IF \E pair \in PairsOf(extracted) : pair.k = "symptoms"
    THEN (CHOOSE pair \in PairsOf(extracted) : pair.k = "symptoms").v
    ELSE Null

\* C10: in the symptoms loop, for a line that is no completion token: extracted
\* symptoms N are appended to existing symptoms E as E, ", ", N (lists joined with
\* ", " first); with E empty the value is N; with no N symptoms is unchanged; no
\* other field is changed by the step
C10_AppendSymptoms ==
    (ExtraCaptured /\ call.raised = NoException) =>
        LET N == SuppliedSymptoms(call.extracted)
            E == call.pre["symptoms"]
        IN  /\ \A key \in DOMAIN call.pre \ {"symptoms"} : call.merged[key] = call.pre[key]
            /\ IsEmptyValue(N) => call.merged["symptoms"] = E
            /\ (~IsEmptyValue(N) /\ IsEmptyValue(E)) =>
                   call.merged["symptoms"] = Str(SymptomTokens(N))
            /\ (~IsEmptyValue(N) /\ ~IsEmptyValue(E)) =>
                   call.merged["symptoms"] =
                       Str(SymptomTokens(E) \o <<", ">> \o SymptomTokens(N))
            /\ pc = "symptoms" => appointment_context = call.merged
            /\ pc = "exited" => printed.context = call.merged

\* "fever" is extracted when the context holds "cough"
C10_Witness ==
    /\ ExtraCaptured
    /\ call.raised = NoException
    /\ call.pre["symptoms"] = S("cough")
    /\ SuppliedSymptoms(call.extracted) = S("fever")
    /\ call.merged["symptoms"] = Str(<<"cough", ", ", "fever">>)

\* C11: in every reachable state the symptoms the context holds is never a list,
\* and neither is a reason derived from it: a list the extraction supplies is
\* stored as one comma-joined string by the merge of a turn and by the append
C11_SymptomsNeverList ==
    /\ appointment_context["symptoms"].t # "list"
    /\ appointment_context["reason"].t # "list"
    /\ printed.context["symptoms"].t # "list"
    /\ printed.context["reason"].t # "list"

\* C12: every result process_user_input returns, whatever its status, carries a
\* snapshot of the full current context and a human-readable message
C12_ResultCarriesContext ==
    TurnCaptured =>
        /\ result.status \in {"collecting_info", "ask_symptoms", "error"}
        /\ "extracted_info" \in DOMAIN result
        /\ result.extracted_info = appointment_context
        /\ "message" \in DOMAIN result

\* C12 as amended: a result with status collecting_info or ask_symptoms carries
\* a snapshot of the full current context and a message; a result with status
\* error carries the status and the exception's message as response, and
\* nothing else
C12_NonErrorResultCarriesContext ==
    TurnCaptured =>
        /\ result.status \in {"collecting_info", "ask_symptoms", "error"}
        /\ result.status # "error" =>
              /\ {"extracted_info", "message"} \subseteq DOMAIN result
              /\ DOMAIN result.extracted_info = DOMAIN appointment_context
              /\ result.extracted_info = appointment_context
        /\ result.status = "error" =>
              /\ DOMAIN result = {"status", "response"}
              /\ result.response = call.raised.message

\* a turn that fills the last required field and returns the whole context
C12_Witness ==
    /\ TurnCompleted
    /\ result.status = "ask_symptoms"
    /\ call.pre["reason"] = Null
    /\ result.extracted_info["reason"] = S("checkup")
    /\ result.extracted_info["symptoms"] = Null
    /\ result.extracted_info = appointment_context

\* the step of the symptoms loop on a line that is no completion token, ended
\* without exception
ExtraCompleted == ExtraCaptured /\ call.raised = NoException

\* C13: after a non-completion input is extracted and its symptoms appended, the
\* conversation finalizes (the context is printed, every field reset to None)
\* iff no field of the context is None then; otherwise the context is kept and
\* main() waits for the next line of the symptoms loop
C13_FinalizeIffAllFilled ==
    ExtraCompleted =>
        IF \A key \in DOMAIN call.merged : call.merged[key] # Null
        THEN /\ pc = "exited"
             /\ printed.banner = "ALL APPOINTMENT DETAILS FILLED!"
             /\ printed.context = call.merged
             /\ \A key \in DOMAIN appointment_context : appointment_context[key] = Null
        ELSE /\ pc = "symptoms"
             /\ appointment_context = call.merged
             /\ printed = NothingPrinted

\* the extraction gives no symptoms and the context has none: the same context
\* is kept and the loop goes on
C13_Witness ==
    /\ ExtraCompleted
    /\ call.pre["symptoms"] = Null
    /\ call.pre["reason"] = S("checkup")
    /\ call.extracted = Obj(<<>>)
    /\ pc = "symptoms"
    /\ appointment_context = call.pre

\* C19: the symptoms loop prompts again only while symptoms is still empty after
\* the input; with symptoms non-empty, collected before the loop or extracted
\* from this input, the step finalizes and resets the context, so a step that
\* appends is the last of the loop
C19_AtMostOneAppend ==
    ExtraCompleted =>
        /\ pc \in {"symptoms", "exited"}
        /\ pc = "symptoms" =>
              /\ IsEmptyValue(call.merged["symptoms"])
              /\ call.merged = call.pre
        /\ (~IsEmptyValue(call.pre["symptoms"]) \/ ~IsEmptyValue(call.merged["symptoms"])) =>
              /\ pc = "exited"
              /\ \A key \in DOMAIN appointment_context : appointment_context[key] = Null
        /\ call.merged # call.pre => pc = "exited"

\* symptoms were collected before the loop: a line with no symptoms finalizes
C19_Witness ==
    /\ ExtraCompleted
    /\ call.pre["symptoms"] = S("cough")
    /\ SuppliedSymptoms(call.extracted) = Null
    /\ call.merged = call.pre
    /\ pc = "exited"
    /\ printed.context["symptoms"] = S("cough")
    /\ appointment_context = EmptyContext

\* the pairs of a turn's extraction that give a different non-empty value for a
\* field that was filled before the turn
Corrections ==
    {pair \in PairsOf(call.extracted) :
        /\ ~IsEmptyValue(pair.v)
        /\ pair.k \in DOMAIN call.pre
        /\ ~IsEmptyValue(call.pre[pair.k])
        /\ pair.v # call.pre[pair.k]}

\* C14: a later turn that supplies a different non-empty value for a field an
\* earlier turn filled is reflected in that turn's result: the context snapshot
\* holds the corrected value and the missing-field list is derived from it
C14_CorrectionReflected ==
    TurnCompleted =>
        /\ \A pair \in Corrections : result.extracted_info[pair.k] = pair.v
        /\ result.status = "collecting_info" =>
               result.missing_fields = ExpectedMissing(result.extracted_info)

\* C14 as amended: the missing-field list of every turn is derived from the
\* context of that turn, but a different non-empty value for a field an earlier
\* turn filled is not taken: the snapshot and the context keep the first value
C14_FirstValueKept ==
    TurnCompleted =>
        /\ \A pair \in Corrections :
              /\ result.extracted_info[pair.k] = call.pre[pair.k]
              /\ appointment_context[pair.k] = call.pre[pair.k]
        /\ result.status = "collecting_info" =>
               result.missing_fields = ExpectedMissing(result.extracted_info)

\* the reason was taken from the symptoms "cough" in an earlier turn, and this
\* turn's extraction gives the reason "checkup"
C14_Witness ==
    /\ TurnCompleted
    /\ call.pre["reason"] = S("cough")
    /\ [k |-> "reason", v |-> S("checkup")] \in Corrections
    /\ result.status = "collecting_info"
    /\ result.extracted_info["reason"] = S("cough")

\* the contexts the program holds: the context of the state, and the context
\* main() tests with is_all_fields_filled and prints before it resets
ContextsHeld ==
    {appointment_context, printed.context}
    \cup (IF ExtraCaptured \/ TurnCaptured THEN {call.merged} ELSE {})

\* C18: each field of the context is None or a non-empty value, never an empty
\* string or an empty list; so the test `is not None` of the finalization and
\* the test of emptiness of the merge and the missing-field derivation agree
C18_NoneOrNonEmpty ==
    \A context \in ContextsHeld :
        \A key \in DOMAIN context :
            /\ context[key] # Str(<<>>)
            /\ context[key] # List(<<>>)
            /\ (context[key] # Null) <=> ~IsEmptyValue(context[key])

\* a is b without some of its elements
IsSubList(a, b) == a = SelectSeq(b, LAMBDA f : f \in Range(a))

\* the missing fields a result reports: none with ask_symptoms
ReportedMissing(res) == IF res.status = "collecting_info" THEN res.missing_fields ELSE <<>>

\* C17: over serialized turns the set of non-empty fields never shrinks, so the
\* missing fields of a turn are a sub-list of those missing before it, and once
\* no required field is missing every turn that is no error returns
\* ask_symptoms; a field goes from non-empty to empty only in the finalization
\* reset, which empties all fields at once
C17_MonotonicProgress ==
    [][LET finalized == pc' = "exited" /\ printed'.banner # "none" /\ printed.banner = "none"
           turned == pc = "processing" /\ pc' # "processing"
       IN  /\ \A key \in DOMAIN appointment_context :
                 (~IsEmptyValue(appointment_context[key])
                      /\ IsEmptyValue(appointment_context'[key])) =>
                     /\ finalized
                     /\ \A other \in DOMAIN appointment_context :
                            appointment_context'[other] = Null
           /\ ~finalized =>
                 IsSubList(ExpectedMissing(appointment_context'),
                           ExpectedMissing(appointment_context))
           /\ (turned /\ result'.status # "error") =>
                 /\ ReportedMissing(result') = ExpectedMissing(appointment_context')
                 /\ IsSubList(ReportedMissing(result'), ExpectedMissing(appointment_context))
                 /\ ExpectedMissing(appointment_context) = <<>> =>
                        result'.status = "ask_symptoms"
      ]_vars

\* a turn on a context that lacks three required fields fills one of them
C17_Witness ==
    /\ TurnCompleted
    /\ ExpectedMissing(call.pre) = <<"doctor_specialty", "preferred_time", "reason">>
    /\ result.status = "collecting_info"
    /\ result.missing_fields = <<"doctor_specialty", "reason">>

(***************************************************************************)
(* Two executions of process_appointment_booking on the one module-level   *)
(* context (agent.py:209-258).  Nothing in the module locks the context,   *)
(* so the executions interleave between the emptiness check of a field     *)
(* (218) and the write to it (219), and between the check of the fallback  *)
(* (222) and its write (223).                                              *)
(***************************************************************************)
Threads == {1, 2}

\* what the oracle answers to the two executions
RaceItems ==
    {[k |-> "symptoms", v |-> S("cough")], [k |-> "symptoms", v |-> S("fever")],
     [k |-> "reason", v |-> S("checkup")], [k |-> "patient_age", v |-> S("30")]}

RaceObjects == {o \in Objects : Range(o.v) \subseteq RaceItems}

\* an execution that has not started: pc is its position, items the pairs of
\* extracted.items() still to come
IdleTurn ==
    [pc |-> "idle", items |-> <<>>, extracted |-> EmptyObject,
     raised |-> NoException, result |-> NoResult]

\* an execution is between its first check and its return
Active(t) == turns.run[t].pc \notin {"idle", "done"}

InitRace ==
    /\ appointment_context = EmptyContext
    /\ pc = "concurrent"
    /\ result = NoResult
    /\ symptoms_input = <<>>
    /\ printed = NothingPrinted
    /\ call = NoCall
    /\ turns = [run |-> [t \in Threads |-> IdleTurn], overlapped |-> FALSE,
                overwritten |-> {}]

\* agent.py:214-217: the extraction has returned and the loop starts.
\* overlapped records that the other execution is under way.
StartTurn(t) ==
    /\ turns.run[t].pc = "idle"
    /\ \E extracted \in RaceObjects :
          turns' = [turns EXCEPT
                       !.run[t] = [@ EXCEPT !.pc = "loop", !.items = extracted.v,
                                            !.extracted = extracted],
                       !.overlapped = @ \/ \E u \in Threads \ {t} : Active(u)]
    /\ UNCHANGED <<appointment_context, pc, result, symptoms_input, printed, call>>

\* agent.py:217-218: the next pair and the test `value and not appointment_context[key]`;
\* a KeyError ends the execution in the handler of process_user_input (267-271)
CheckField(t) ==
    /\ turns.run[t].pc = "loop"
    /\ Len(turns.run[t].items) > 0
    /\ LET key == turns.run[t].items[1].k
           value == turns.run[t].items[1].v
       IN  turns' = [turns EXCEPT !.run[t] =
               IF ~Truthy(value) THEN [@ EXCEPT !.items = Tail(@)]
               ELSE IF key \notin DOMAIN appointment_context
                    THEN [@ EXCEPT !.pc = "done", !.raised = KeyError(key),
                                   !.result = [status |-> "error",
                                               response |-> KeyError(key).message]]
               ELSE IF FieldIsEmpty(appointment_context, key)
                    THEN [@ EXCEPT !.pc = "write"]
               ELSE [@ EXCEPT !.items = Tail(@)]]
    /\ UNCHANGED <<appointment_context, pc, result, symptoms_input, printed, call>>

\* agent.py:219: the write that follows a check that found the field empty.
\* overwritten records the fields written while they held a non-empty value.
WriteField(t) ==
    /\ turns.run[t].pc = "write"
    /\ LET key == turns.run[t].items[1].k
           value == turns.run[t].items[1].v
       IN  /\ appointment_context' = [appointment_context EXCEPT ![key] = value]
           /\ turns' = [turns EXCEPT
                           !.run[t] = [@ EXCEPT !.pc = "loop", !.items = Tail(@)],
                           !.overwritten =
                               IF Truthy(appointment_context[key]) THEN @ \cup {key} ELSE @]
    /\ UNCHANGED <<pc, result, symptoms_input, printed, call>>

\* agent.py:222: the loop is over; the test of the fallback
FallbackCheck(t) ==
    /\ turns.run[t].pc = "loop"
    /\ Len(turns.run[t].items) = 0
    /\ turns' = [turns EXCEPT !.run[t].pc =
                    IF Truthy(appointment_context["symptoms"])
                       /\ ~Truthy(appointment_context["reason"])
                    THEN "fallback" ELSE "return"]
    /\ UNCHANGED <<appointment_context, pc, result, symptoms_input, printed, call>>

\* agent.py:223
FallbackWrite(t) ==
    /\ turns.run[t].pc = "fallback"
    /\ appointment_context' =
           [appointment_context EXCEPT !["reason"] = appointment_context["symptoms"]]
    /\ turns' = [turns EXCEPT
                    !.run[t].pc = "return",
                    !.overwritten =
                        IF Truthy(appointment_context["reason"]) THEN @ \cup {"reason"} ELSE @]
    /\ UNCHANGED <<pc, result, symptoms_input, printed, call>>

\* agent.py:225-258
ReturnResult(t) ==
    /\ turns.run[t].pc = "return"
    /\ turns' = [turns EXCEPT !.run[t] =
                    [@ EXCEPT !.pc = "done", !.result = TurnResult(appointment_context)]]
    /\ UNCHANGED <<appointment_context, pc, result, symptoms_input, printed, call>>

NextRace ==
    \E t \in Threads :
        \/ StartTurn(t)
        \/ CheckField(t)
        \/ WriteField(t)
        \/ FallbackCheck(t)
        \/ FallbackWrite(t)
        \/ ReturnResult(t)

SpecRace == InitRace /\ [][NextRace]_vars

\* C15: two executions of process_appointment_booking on the same context race:
\* a field one of them wrote non-empty is overwritten by the other when they
\* interleave between check and write, and only then: with the executions one
\* after the other no non-empty field is overwritten
C15_OverwriteOnlyWhenInterleaved ==
    /\ turns.overwritten # {} => turns.overlapped
    /\ ~turns.overlapped =>
          \A t \in Threads :
              turns.run[t].pc = "write" =>
                  IsEmptyValue(appointment_context[turns.run[t].items[1].k])

\* both executions are over, one extracted "cough" and the other "fever", and
\* the symptoms written first were overwritten
C15_Witness ==
    /\ \A t \in Threads : turns.run[t].pc = "done"
    /\ turns.run[1].extracted = Obj(<<[k |-> "symptoms", v |-> S("cough")]>>)
    /\ turns.run[2].extracted = Obj(<<[k |-> "symptoms", v |-> S("fever")]>>)
    /\ turns.overlapped
    /\ "symptoms" \in turns.overwritten
    /\ appointment_context["symptoms"] = S("cough")
    /\ appointment_context["reason"] = S("fever")

(***************************************************************************)
(* Turns through process_user_input one after the other, on and on, as a   *)
(* caller of the function sees them: each turn starts when the one before  *)
(* has returned.  call keeps what the turns so far were given and gave:    *)
(* the fields an extraction supplied a non-empty value for, whether a turn *)
(* ended in an exception, and whether a turn returned ask_symptoms.        *)
(***************************************************************************)
\* what the oracle answers in these turns: one value for each field, null and
\* "" besides, and a patient_age, which the context has no key for
SerialItems ==
    {pair \in Items :
        /\ pair.k # "patient_phone"
        /\ pair.k = "symptoms" => pair.v = S("cough")}

SerialObjects == {o \in ObjectsInPromptOrder : Range(o.v) \subseteq SerialItems}

InitSerial ==
    /\ appointment_context = EmptyContext
    /\ pc = "serial"
    /\ result = NoResult
    /\ symptoms_input = <<>>
    /\ printed = NothingPrinted
    /\ call = [op |-> "serial_turns", supplied |-> {}, errored |-> FALSE,
               asked |-> FALSE]
    /\ turns = NoTurns

\* agent.py:260-271, for an answer of the oracle that is the JSON object extracted
SerialTurn ==
    /\ pc = "serial"
    /\ \E extracted \in SerialObjects :
       LET done == process_user_input(appointment_context,
                                      [ok |-> TRUE, text |-> <<Doc(extracted)>>])
       IN  /\ appointment_context' = done.context
           /\ result' = done.result
           /\ call' = [call EXCEPT
                          !.supplied = @ \cup {extracted.v[i].k : i \in
                                                  {j \in 1..Len(extracted.v) :
                                                      Truthy(extracted.v[j].v)}},
                          !.errored = @ \/ done.raised # NoException,
                          !.asked = @ \/ done.result.status = "ask_symptoms"]
    /\ UNCHANGED <<pc, symptoms_input, printed, turns>>

\* the caller goes on calling: a call of process_user_input returns, and the
\* next one is made
SpecSerial == InitSerial /\ [][SerialTurn]_vars /\ WF_vars(SerialTurn)

\* every required field has been supplied by the extraction of some turn, the
\* reason by a reason or by symptoms
AllSupplied ==
    /\ {"doctor_specialty", "preferred_date", "preferred_time", "patient_name"}
           \subseteq call.supplied
    /\ call.supplied \cap {"reason", "symptoms"} # {}

\* C16: from the empty context, with serialized turns none of which errors, once
\* for each of doctor_specialty, preferred_date, preferred_time, patient_name
\* and (reason or symptoms) some turn's extraction has supplied a non-empty
\* value, a turn has returned ask_symptoms (the turn that supplied the last of
\* them at the latest); every turn before that one returns collecting_info with
\* a non-empty missing_fields list
C16_EventuallyAskSymptoms ==
    (call.op = "serial_turns" /\ ~call.errored) =>
        /\ AllSupplied => (call.asked /\ result.status = "ask_symptoms")
        /\ (~call.asked /\ result # NoResult) =>
               /\ result.status = "collecting_info"
               /\ result.missing_fields # <<>>
               /\ ~AllSupplied

\* ask_symptoms is returned for a context whose reason came from symptoms, no
\* turn having supplied a reason
C16_Witness ==
    /\ call.op = "serial_turns"
    /\ ~call.errored
    /\ call.asked
    /\ "reason" \notin call.supplied
    /\ "symptoms" \in call.supplied
    /\ result.status = "ask_symptoms"
    /\ appointment_context["reason"] = S("cough")

====
